---- MODULE Spec2Model ----
(***************************************************************************)
(* Attributed text display (m4demos/src/bin/hires_text.rs).                *)
(*                                                                         *)
(* A static 80x37 grid of attributed characters, TEXT_BUF, is painted by   *)
(* the application loop through a Cursor and read by the raster callback   *)
(* once per visible scan line.  Both take the buffer with try_lock.        *)
(***************************************************************************)
EXTENDS Integers, Sequences, FiniteSets, TLC

\* ------------------------------------------------------------------------
\* Program constants
\* ------------------------------------------------------------------------
COLS == 80
ROWS == 37
WHITE == 63
BLACK == 0
DK_GRAY == 21
RED == 3
BLUE == 48

\* Number of cells of TEXT_BUF: [AChar; COLS * ROWS]
GridLen == COLS * ROWS

\* The line-break byte b'\n' and the blank b' '
NL == 10
SP == 32

\* u8 truncation (c as u8)
U8(n) == n % 256

\* ------------------------------------------------------------------------
\* Attributed cell (m4vga::rast::text_10x16::AChar): a character code and
\* two colours packed into one word: the code in the low 8 bits, then the
\* foreground and the background, each cut to the 6 bits the cell keeps.
\* ------------------------------------------------------------------------
CharRange == 256
ColorRange == 64

Ch(a) == a % CharRange
Fg(a) == (a \div CharRange) % ColorRange
Bg(a) == (a \div (CharRange * ColorRange)) % ColorRange

from_ascii_char(c) == c % CharRange
with_foreground(a, color) ==
  a - Fg(a) * CharRange + (color % ColorRange) * CharRange
with_background(a, color) ==
  a - Bg(a) * CharRange * ColorRange + (color % ColorRange) * CharRange * ColorRange

\* A grid is the sequence of its GridLen cells; the cell the source indexes
\* with idx (from 0) is element idx + 1.
Cell(grid, idx) == grid[idx + 1]

\* static TEXT_BUF initial contents: [AChar::from_ascii_char(0); COLS * ROWS]
ZeroGrid == [i \in 1 .. GridLen |-> from_ascii_char(0)]

\* ------------------------------------------------------------------------
\* Cursor: buf (the borrowed grid), row, col, fg, bg.  ok = FALSE once an
\* operation has panicked (assert! or slice index out of range); a panic
\* halts the caller, so later operations leave the record alone.
\* ------------------------------------------------------------------------
Cursor_new(buf) ==
  [buf |-> buf, row |-> 0, col |-> 0, fg |-> 255, bg |-> 32, ok |-> TRUE]

\* Variant of putc_newline: the whole row is blanked, from its first column
putc_newline_wholerow(c) ==
  LET pos == c.row * COLS + c.col
      end_of_line == ((pos + (COLS - 1)) \div COLS) * COLS
      blank == with_background(with_foreground(from_ascii_char(SP), c.fg), c.bg)
  IN  IF end_of_line > GridLen
        THEN [c EXCEPT !.ok = FALSE]
        ELSE [c EXCEPT
               !.buf = [i \in 1 .. GridLen |->
                          IF c.row * COLS <= i - 1 /\ i - 1 < end_of_line
                            THEN blank ELSE c.buf[i]],
               !.col = 0,
               !.row = c.row + 1]

\* putc, the b'\n' arm
putc_newline(c) ==
  LET pos == c.row * COLS + c.col
      end_of_line == ((pos + (COLS - 1)) \div COLS) * COLS
      blank == with_background(with_foreground(from_ascii_char(SP), c.fg), c.bg)
  IN  IF end_of_line > GridLen
        THEN [c EXCEPT !.ok = FALSE]
        ELSE [c EXCEPT
               !.buf = [i \in 1 .. GridLen |->
                          IF pos <= i - 1 /\ i - 1 < end_of_line
                            THEN blank ELSE c.buf[i]],
               !.col = 0,
               !.row = c.row + 1]

\* Variant of putc_char: the wrap test is col > COLS
putc_char_latewrap(c, byte) ==
  LET idx == c.row * COLS + c.col
      cell == with_background(with_foreground(from_ascii_char(byte), c.fg), c.bg)
  IN  IF idx >= GridLen
        THEN [c EXCEPT !.ok = FALSE]
        ELSE LET col1 == c.col + 1
             IN  [c EXCEPT
                    !.buf = [c.buf EXCEPT ![idx + 1] = cell],
                    !.col = IF col1 > COLS THEN 0 ELSE col1,
                    !.row = IF col1 > COLS THEN c.row + 1 ELSE c.row]

\* Variant of putc_char: foreground and background exchanged
putc_char_swapped(c, byte) ==
  LET idx == c.row * COLS + c.col
      cell == with_background(with_foreground(from_ascii_char(byte), c.bg), c.fg)
  IN  IF idx >= GridLen
        THEN [c EXCEPT !.ok = FALSE]
        ELSE LET col1 == c.col + 1
             IN  [c EXCEPT
                    !.buf = [c.buf EXCEPT ![idx + 1] = cell],
                    !.col = IF col1 = COLS THEN 0 ELSE col1,
                    !.row = IF col1 = COLS THEN c.row + 1 ELSE c.row]

\* putc, the arm for every other byte
putc_char(c, byte) ==
  LET idx == c.row * COLS + c.col
      cell == with_background(with_foreground(from_ascii_char(byte), c.fg), c.bg)
  IN  IF idx >= GridLen
        THEN [c EXCEPT !.ok = FALSE]
        ELSE LET col1 == c.col + 1
             IN  [c EXCEPT
                    !.buf = [c.buf EXCEPT ![idx + 1] = cell],
                    !.col = IF col1 = COLS THEN 0 ELSE col1,
                    !.row = IF col1 = COLS THEN c.row + 1 ELSE c.row]

putc(c, byte) ==
  IF ~c.ok THEN c
  ELSE IF byte = NL THEN putc_newline(c)
  ELSE putc_char(c, byte)

\* for c in s { self.putc(*c) }, for the bytes s[lo .. hi]; the range is
\* halved so that the evaluation stays shallow
RECURSIVE puts_range(_, _, _, _)
puts_range(c, s, lo, hi) ==
  IF ~c.ok \/ lo > hi THEN c
  ELSE IF lo = hi THEN putc(c, s[lo])
  ELSE LET mid == (lo + hi) \div 2
       IN  puts_range(puts_range(c, s, lo, mid), s, mid + 1, hi)

puts(c, s) == puts_range(c, s, 1, Len(s))

\* Variant of goto: an out-of-range row or column is clamped to the last one
goto_clamped(c, row, col) ==
  IF ~c.ok THEN c
  ELSE [c EXCEPT !.row = IF row < ROWS THEN row ELSE ROWS - 1,
                 !.col = IF col < COLS THEN col ELSE COLS - 1]

\* assert!(row < ROWS); assert!(col < COLS); self.row = row; self.col = col;
goto(c, row, col) ==
  IF ~c.ok THEN c
  ELSE IF ~(row < ROWS) THEN [c EXCEPT !.ok = FALSE]
  ELSE IF ~(col < COLS) THEN [c EXCEPT !.ok = FALSE]
  ELSE [c EXCEPT !.row = row, !.col = col]

\* n successive putc(byte): the body of clear's loop run n times
RECURSIVE putc_times(_, _, _)
putc_times(c, byte, n) ==
  IF ~c.ok \/ n = 0 THEN c
  ELSE IF n = 1 THEN putc(c, byte)
  ELSE putc_times(putc_times(c, byte, n \div 2), byte, n - (n \div 2))

\* Variant of clear: the loop runs once more, 0 ..= COLS * ROWS
clear_over(c) == putc_times(goto(c, 0, 0), SP, COLS * ROWS + 1)

\* Variant of clear: the blanks are typed from where the cursor stands
clear_nogoto(c) == putc_times(c, SP, COLS * ROWS)

\* self.goto(0, 0); for _ in 0..(COLS * ROWS) { self.putc(b' ') }
clear(c) == putc_times(goto(c, 0, 0), SP, COLS * ROWS)

\* Variant of Bytes_of: a code point above 255 is replaced by '?'
Bytes_of_replaced(s) == [i \in 1 .. Len(s) |-> IF s[i] > 255 THEN 63 ELSE s[i]]

\* core::fmt::Write::write_str: s is the string's code points; each is cut
\* to a byte (c as u32, then as u8) and typed
Bytes_of(s) == [i \in 1 .. Len(s) |-> U8(s[i])]

write_str(c, s) == puts_range(c, Bytes_of(s), 1, Len(s))

\* A run of n blanks inside a byte-string literal
Spaces(n) == [i \in 1 .. n |-> SP]

\* Variant of Exec: the background assignments are left out
Exec_nobg(c, st) ==
  CASE st[1] = "bg" -> c
    [] st[1] = "fg" -> IF c.ok THEN [c EXCEPT !.fg = st[2]] ELSE c
    [] st[1] = "clear" -> clear(c)
    [] st[1] = "goto" -> goto(c, st[2], st[3])
    [] st[1] = "puts" -> puts(c, st[2])

\* One statement of a screen procedure
Exec(c, st) ==
  CASE st[1] = "bg" -> IF c.ok THEN [c EXCEPT !.bg = st[2]] ELSE c
    [] st[1] = "fg" -> IF c.ok THEN [c EXCEPT !.fg = st[2]] ELSE c
    [] st[1] = "clear" -> clear(c)
    [] st[1] = "goto" -> goto(c, st[2], st[3])
    [] st[1] = "puts" -> puts(c, st[2])

\* The statements body[lo .. hi] in order
RECURSIVE run_range(_, _, _, _)
run_range(c, body, lo, hi) ==
  IF ~c.ok \/ lo > hi THEN c
  ELSE IF lo = hi THEN Exec(c, body[lo])
  ELSE LET mid == (lo + hi) \div 2
       IN  run_range(run_range(c, body, lo, mid), body, mid + 1, hi)

\* A procedure body: its statements from first to last
Run(c, body) == run_range(c, body, 1, Len(body))

\* screen_error: src lines 366-381
screen_error(c) ==
  Run(c, <<
    <<"bg", BLUE>>,                             \* c.bg = BLUE;
    <<"fg", WHITE>>,                            \* c.fg = WHITE;
    <<"clear">>,                                \* c.clear();
    <<"goto", 0, 0>>,                           \* c.goto(0,0);
    <<"bg", RED>>,                              \* c.bg = RED;
    <<"puts", Spaces(1) \o <<10>>>>,            \* c.puts(b" \n");
    \* c.puts(b"                                     ERROR                                      ");
    <<"puts", Spaces(37) \o <<69, 82, 82, 79, 82>> \o Spaces(38)>>,
    <<"puts", Spaces(1) \o <<10>>>>,            \* c.puts(b" \n");
    <<"bg", BLACK>>                             \* c.bg = BLACK;
  >>)

\* screen_start: src lines 383-404
screen_start(c) ==
  Run(c, <<
    <<"bg", DK_GRAY>>,                          \* c.bg = DK_GRAY;
    <<"fg", WHITE>>,                            \* c.fg = WHITE;
    <<"clear">>,                                \* c.clear();
    <<"bg", BLUE>>,                             \* c.bg = BLUE;
    <<"goto", 16, 35>>,                         \* c.goto(16,35);
    <<"puts", Spaces(11)>>,                     \* c.puts(b"           ");
    <<"goto", 17, 35>>,                         \* c.goto(17,35);
    \* c.puts(b" Press any ");
    <<"puts", Spaces(1) \o <<80, 114, 101, 115, 115>> \o Spaces(1) \o <<97, 110, 121>> \o Spaces(1)>>,
    <<"goto", 18, 35>>,                         \* c.goto(18,35);
    \* c.puts(b"  button   ");
    <<"puts", Spaces(2) \o <<98, 117, 116, 116, 111, 110>> \o Spaces(3)>>,
    <<"goto", 19, 35>>,                         \* c.goto(19,35);
    \* c.puts(b" to start! ");
    <<"puts", Spaces(1) \o <<116, 111>> \o Spaces(1) \o <<115, 116, 97, 114, 116, 33>> \o Spaces(1)>>,
    <<"goto", 20, 35>>,                         \* c.goto(20,35);
    <<"puts", Spaces(11)>>,                     \* c.puts(b"           ");
    <<"bg", BLACK>>                             \* c.bg = BLACK;
  >>)

\* screen_paying: src lines 406-431
screen_paying(c) ==
  Run(c, <<
    <<"bg", DK_GRAY>>,                          \* c.bg = DK_GRAY;
    <<"fg", WHITE>>,                            \* c.fg = WHITE;
    <<"clear">>,                                \* c.clear();
    <<"bg", BLUE>>,                             \* c.bg = BLUE;
    <<"goto", 0, 0>>,                           \* c.goto(0,0);
    <<"puts", Spaces(1) \o <<10>>>>,            \* c.puts(b" \n");
    \* c.puts(b"                                    Payment                                     ");
    <<"puts", Spaces(36) \o <<80, 97, 121, 109, 101, 110, 116>> \o Spaces(37)>>,
    <<"puts", Spaces(1) \o <<10>>>>,            \* c.puts(b" \n");
    <<"goto", 17, 35>>,                         \* c.goto(17,35);
    <<"puts", Spaces(10)>>,                     \* c.puts(b"          ");
    <<"goto", 18, 35>>,                         \* c.goto(18,35);
    \* c.puts(b"  Please  ");
    <<"puts", Spaces(2) \o <<80, 108, 101, 97, 115, 101>> \o Spaces(2)>>,
    <<"goto", 19, 35>>,                         \* c.goto(19,35);
    \* c.puts(b" pay now. ");
    <<"puts", Spaces(1) \o <<112, 97, 121>> \o Spaces(1) \o <<110, 111, 119, 46>> \o Spaces(1)>>,
    <<"goto", 20, 35>>,                         \* c.goto(20,35);
    <<"puts", Spaces(10)>>,                     \* c.puts(b"          ");
    <<"bg", BLACK>>                             \* c.bg = BLACK;
  >>)

\* screen_confirm: src lines 433-478
screen_confirm(c) ==
  Run(c, <<
    <<"bg", DK_GRAY>>,                          \* c.bg = DK_GRAY;
    <<"fg", WHITE>>,                            \* c.fg = WHITE;
    <<"clear">>,                                \* c.clear();
    <<"bg", BLUE>>,                             \* c.bg = BLUE;
    <<"goto", 0, 0>>,                           \* c.goto(0,0);
    <<"puts", Spaces(1) \o <<10>>>>,            \* c.puts(b" \n");
    \* c.puts(b"                                  Confirmation                                  ");
    <<"puts", Spaces(34) \o <<67, 111, 110, 102, 105, 114, 109, 97, 116, 105, 111, 110>> \o Spaces(34)>>,
    <<"puts", Spaces(1) \o <<10>>>>,            \* c.puts(b" \n");
    <<"goto", 17, 35>>,                         \* c.goto(17,35);
    <<"puts", Spaces(11)>>,                     \* c.puts(b"           ");
    <<"goto", 18, 35>>,                         \* c.goto(18,35);
    \* c.puts(b"  Do you   ");
    <<"puts", Spaces(2) \o <<68, 111>> \o Spaces(1) \o <<121, 111, 117>> \o Spaces(3)>>,
    <<"goto", 19, 35>>,                         \* c.goto(19,35);
    \* c.puts(b"  want to  ");
    <<"puts", Spaces(2) \o <<119, 97, 110, 116>> \o Spaces(1) \o <<116, 111>> \o Spaces(2)>>,
    <<"goto", 20, 35>>,                         \* c.goto(20,35);
    \* c.puts(b" continue? ");
    <<"puts", Spaces(1) \o <<99, 111, 110, 116, 105, 110, 117, 101, 63>> \o Spaces(1)>>,
    <<"goto", 21, 35>>,                         \* c.goto(21,35);
    <<"puts", Spaces(11)>>,                     \* c.puts(b"           ");
    <<"bg", 8>>,                                \* c.bg = 0b00_10_00;
    <<"goto", 11, 0>>,                          \* c.goto(11,0);
    <<"puts", Spaces(5)>>,                      \* c.puts(b"     ");
    <<"goto", 12, 0>>,                          \* c.goto(12,0);
    \* c.puts(b" YES ");
    <<"puts", Spaces(1) \o <<89, 69, 83>> \o Spaces(1)>>,
    <<"goto", 13, 0>>,                          \* c.goto(13,0);
    <<"puts", Spaces(5)>>,                      \* c.puts(b"     ");
    <<"bg", 2>>,                                \* c.bg = 0b00_00_10;
    <<"goto", 24, 0>>,                          \* c.goto(24,0);
    <<"puts", Spaces(5)>>,                      \* c.puts(b"     ");
    <<"goto", 25, 0>>,                          \* c.goto(25,0);
    \* c.puts(b" NO  ");
    <<"puts", Spaces(1) \o <<78, 79>> \o Spaces(2)>>,
    <<"goto", 26, 0>>,                          \* c.goto(26,0);
    <<"puts", Spaces(5)>>,                      \* c.puts(b"     ");
    <<"bg", BLACK>>                             \* c.bg = BLACK;
  >>)

\* screen_line1: src lines 480-536
screen_line1(c) ==
  Run(c, <<
    <<"bg", DK_GRAY>>,                          \* c.bg = DK_GRAY;
    <<"fg", WHITE>>,                            \* c.fg = WHITE;
    <<"clear">>,                                \* c.clear();
    <<"bg", BLUE>>,                             \* c.bg = BLUE;
    <<"goto", 0, 0>>,                           \* c.goto(0,0);
    <<"puts", Spaces(1) \o <<10>>>>,            \* c.puts(b" \n");
    \* c.puts(b"                                     Line 1                                     ");
    <<"puts", Spaces(37) \o <<76, 105, 110, 101>> \o Spaces(1) \o <<49>> \o Spaces(37)>>,
    <<"puts", Spaces(1) \o <<10>>>>,            \* c.puts(b" \n");
    <<"goto", 16, 35>>,                         \* c.goto(16,35);
    <<"puts", Spaces(11)>>,                     \* c.puts(b"           ");
    <<"goto", 17, 35>>,                         \* c.goto(17,35);
    \* c.puts(b" Choose a  ");
    <<"puts", Spaces(1) \o <<67, 104, 111, 111, 115, 101>> \o Spaces(1) \o <<97>> \o Spaces(2)>>,
    <<"goto", 18, 35>>,                         \* c.goto(18,35);
    \* c.puts(b" ticket to ");
    <<"puts", Spaces(1) \o <<116, 105, 99, 107, 101, 116>> \o Spaces(1) \o <<116, 111>> \o Spaces(1)>>,
    <<"goto", 19, 35>>,                         \* c.goto(19,35);
    \* c.puts(b" purchase  ");
    <<"puts", Spaces(1) \o <<112, 117, 114, 99, 104, 97, 115, 101>> \o Spaces(2)>>,
    <<"goto", 20, 35>>,                         \* c.goto(20,35);
    <<"puts", Spaces(11)>>,                     \* c.puts(b"           ");
    <<"goto", 10, 0>>,                          \* c.goto(10,0);
    <<"puts", Spaces(6)>>,                      \* c.puts(b"      ");
    <<"goto", 11, 0>>,                          \* c.goto(11,0);
    \* c.puts(b"   A  ");
    <<"puts", Spaces(3) \o <<65>> \o Spaces(2)>>,
    <<"goto", 12, 0>>,                          \* c.goto(12,0);
    <<"puts", Spaces(6)>>,                      \* c.puts(b"      ");
    <<"goto", 10, 74>>,                         \* c.goto(10,74);
    <<"puts", Spaces(6)>>,                      \* c.puts(b"      ");
    <<"goto", 11, 74>>,                         \* c.goto(11,74);
    \* c.puts(b"  B   ");
    <<"puts", Spaces(2) \o <<66>> \o Spaces(3)>>,
    <<"goto", 12, 74>>,                         \* c.goto(12,74);
    <<"puts", Spaces(6)>>,                      \* c.puts(b"      ");
    <<"goto", 25, 0>>,                          \* c.goto(25,0);
    <<"puts", Spaces(6)>>,                      \* c.puts(b"      ");
    <<"goto", 26, 0>>,                          \* c.goto(26,0);
    \* c.puts(b" QUIT ");
    <<"puts", Spaces(1) \o <<81, 85, 73, 84>> \o Spaces(1)>>,
    <<"goto", 27, 0>>,                          \* c.goto(27,0);
    <<"puts", Spaces(6)>>,                      \* c.puts(b"      ");
    <<"goto", 25, 74>>,                         \* c.goto(25,74);
    <<"puts", Spaces(6)>>,                      \* c.puts(b"      ");
    <<"goto", 26, 74>>,                         \* c.goto(26,74);
    \* c.puts(b" NEXT ");
    <<"puts", Spaces(1) \o <<78, 69, 88, 84>> \o Spaces(1)>>,
    <<"goto", 27, 74>>,                         \* c.goto(27,74);
    <<"puts", Spaces(6)>>                       \* c.puts(b"      ");
  >>)

\* screen_line2: src lines 538-594
screen_line2(c) ==
  Run(c, <<
    <<"bg", DK_GRAY>>,                          \* c.bg = DK_GRAY;
    <<"fg", WHITE>>,                            \* c.fg = WHITE;
    <<"clear">>,                                \* c.clear();
    <<"bg", BLUE>>,                             \* c.bg = BLUE;
    <<"goto", 0, 0>>,                           \* c.goto(0,0);
    <<"puts", Spaces(1) \o <<10>>>>,            \* c.puts(b" \n");
    \* c.puts(b"                                     Line 2                                     ");
    <<"puts", Spaces(37) \o <<76, 105, 110, 101>> \o Spaces(1) \o <<50>> \o Spaces(37)>>,
    <<"puts", Spaces(1) \o <<10>>>>,            \* c.puts(b" \n");
    <<"goto", 16, 35>>,                         \* c.goto(16,35);
    <<"puts", Spaces(11)>>,                     \* c.puts(b"           ");
    <<"goto", 17, 35>>,                         \* c.goto(17,35);
    \* c.puts(b" Choose a  ");
    <<"puts", Spaces(1) \o <<67, 104, 111, 111, 115, 101>> \o Spaces(1) \o <<97>> \o Spaces(2)>>,
    <<"goto", 18, 35>>,                         \* c.goto(18,35);
    \* c.puts(b" ticket to ");
    <<"puts", Spaces(1) \o <<116, 105, 99, 107, 101, 116>> \o Spaces(1) \o <<116, 111>> \o Spaces(1)>>,
    <<"goto", 19, 35>>,                         \* c.goto(19,35);
    \* c.puts(b" purchase  ");
    <<"puts", Spaces(1) \o <<112, 117, 114, 99, 104, 97, 115, 101>> \o Spaces(2)>>,
    <<"goto", 20, 35>>,                         \* c.goto(20,35);
    <<"puts", Spaces(11)>>,                     \* c.puts(b"           ");
    <<"goto", 10, 0>>,                          \* c.goto(10,0);
    <<"puts", Spaces(6)>>,                      \* c.puts(b"      ");
    <<"goto", 11, 0>>,                          \* c.goto(11,0);
    \* c.puts(b"   C  ");
    <<"puts", Spaces(3) \o <<67>> \o Spaces(2)>>,
    <<"goto", 12, 0>>,                          \* c.goto(12,0);
    <<"puts", Spaces(6)>>,                      \* c.puts(b"      ");
    <<"goto", 10, 74>>,                         \* c.goto(10,74);
    <<"puts", Spaces(6)>>,                      \* c.puts(b"      ");
    <<"goto", 11, 74>>,                         \* c.goto(11,74);
    \* c.puts(b"  D   ");
    <<"puts", Spaces(2) \o <<68>> \o Spaces(3)>>,
    <<"goto", 12, 74>>,                         \* c.goto(12,74);
    <<"puts", Spaces(6)>>,                      \* c.puts(b"      ");
    <<"goto", 25, 0>>,                          \* c.goto(25,0);
    <<"puts", Spaces(6)>>,                      \* c.puts(b"      ");
    <<"goto", 26, 0>>,                          \* c.goto(26,0);
    \* c.puts(b" PREV ");
    <<"puts", Spaces(1) \o <<80, 82, 69, 86>> \o Spaces(1)>>,
    <<"goto", 27, 0>>,                          \* c.goto(27,0);
    <<"puts", Spaces(6)>>,                      \* c.puts(b"      ");
    <<"goto", 25, 74>>,                         \* c.goto(25,74);
    <<"puts", Spaces(6)>>,                      \* c.puts(b"      ");
    <<"goto", 26, 74>>,                         \* c.goto(26,74);
    \* c.puts(b" NEXT ");
    <<"puts", Spaces(1) \o <<78, 69, 88, 84>> \o Spaces(1)>>,
    <<"goto", 27, 74>>,                         \* c.goto(27,74);
    <<"puts", Spaces(6)>>                       \* c.puts(b"      ");
  >>)

\* screen_line3: src lines 596-652
screen_line3(c) ==
  Run(c, <<
    <<"bg", DK_GRAY>>,                          \* c.bg = DK_GRAY;
    <<"fg", WHITE>>,                            \* c.fg = WHITE;
    <<"clear">>,                                \* c.clear();
    <<"bg", BLUE>>,                             \* c.bg = BLUE;
    <<"goto", 0, 0>>,                           \* c.goto(0,0);
    <<"puts", Spaces(1) \o <<10>>>>,            \* c.puts(b" \n");
    \* c.puts(b"                                     Line 3                                     ");
    <<"puts", Spaces(37) \o <<76, 105, 110, 101>> \o Spaces(1) \o <<51>> \o Spaces(37)>>,
    <<"puts", Spaces(1) \o <<10>>>>,            \* c.puts(b" \n");
    <<"goto", 16, 35>>,                         \* c.goto(16,35);
    <<"puts", Spaces(11)>>,                     \* c.puts(b"           ");
    <<"goto", 17, 35>>,                         \* c.goto(17,35);
    \* c.puts(b" Choose a  ");
    <<"puts", Spaces(1) \o <<67, 104, 111, 111, 115, 101>> \o Spaces(1) \o <<97>> \o Spaces(2)>>,
    <<"goto", 18, 35>>,                         \* c.goto(18,35);
    \* c.puts(b" ticket to ");
    <<"puts", Spaces(1) \o <<116, 105, 99, 107, 101, 116>> \o Spaces(1) \o <<116, 111>> \o Spaces(1)>>,
    <<"goto", 19, 35>>,                         \* c.goto(19,35);
    \* c.puts(b" purchase  ");
    <<"puts", Spaces(1) \o <<112, 117, 114, 99, 104, 97, 115, 101>> \o Spaces(2)>>,
    <<"goto", 20, 35>>,                         \* c.goto(20,35);
    <<"puts", Spaces(11)>>,                     \* c.puts(b"           ");
    <<"goto", 10, 0>>,                          \* c.goto(10,0);
    <<"puts", Spaces(6)>>,                      \* c.puts(b"      ");
    <<"goto", 11, 0>>,                          \* c.goto(11,0);
    \* c.puts(b"   E  ");
    <<"puts", Spaces(3) \o <<69>> \o Spaces(2)>>,
    <<"goto", 12, 0>>,                          \* c.goto(12,0);
    <<"puts", Spaces(6)>>,                      \* c.puts(b"      ");
    <<"goto", 10, 74>>,                         \* c.goto(10,74);
    <<"puts", Spaces(6)>>,                      \* c.puts(b"      ");
    <<"goto", 11, 74>>,                         \* c.goto(11,74);
    \* c.puts(b"  F   ");
    <<"puts", Spaces(2) \o <<70>> \o Spaces(3)>>,
    <<"goto", 12, 74>>,                         \* c.goto(12,74);
    <<"puts", Spaces(6)>>,                      \* c.puts(b"      ");
    <<"goto", 25, 0>>,                          \* c.goto(25,0);
    <<"puts", Spaces(6)>>,                      \* c.puts(b"      ");
    <<"goto", 26, 0>>,                          \* c.goto(26,0);
    \* c.puts(b" PREV ");
    <<"puts", Spaces(1) \o <<80, 82, 69, 86>> \o Spaces(1)>>,
    <<"goto", 27, 0>>,                          \* c.goto(27,0);
    <<"puts", Spaces(6)>>,                      \* c.puts(b"      ");
    <<"goto", 25, 74>>,                         \* c.goto(25,74);
    <<"puts", Spaces(6)>>,                      \* c.puts(b"      ");
    <<"goto", 26, 74>>,                         \* c.goto(26,74);
    \* c.puts(b" QUIT ");
    <<"puts", Spaces(1) \o <<81, 85, 73, 84>> \o Spaces(1)>>,
    <<"goto", 27, 74>>,                         \* c.goto(27,74);
    <<"puts", Spaces(6)>>                       \* c.puts(b"      ");
  >>)

\* screen_thanks: src lines 654-681
screen_thanks(c) ==
  Run(c, <<
    <<"bg", DK_GRAY>>,                          \* c.bg = DK_GRAY;
    <<"fg", WHITE>>,                            \* c.fg = WHITE;
    <<"clear">>,                                \* c.clear();
    <<"bg", BLUE>>,                             \* c.bg = BLUE;
    <<"goto", 0, 0>>,                           \* c.goto(0,0);
    <<"puts", Spaces(1) \o <<10>>>>,            \* c.puts(b" \n");
    \* c.puts(b"                                    Thank You                                   ");
    <<"puts", Spaces(36) \o <<84, 104, 97, 110, 107>> \o Spaces(1) \o <<89, 111, 117>> \o Spaces(35)>>,
    <<"puts", Spaces(1) \o <<10>>>>,            \* c.puts(b" \n");
    <<"bg", 4>>,                                \* c.bg = 0b00_01_00;
    <<"fg", BLACK>>,                            \* c.fg = BLACK;
    <<"goto", 17, 34>>,                         \* c.goto(17,34);
    <<"puts", Spaces(12)>>,                     \* c.puts(b"            ");
    <<"goto", 18, 34>>,                         \* c.goto(18,34);
    \* c.puts(b" Thanks for ");
    <<"puts", Spaces(1) \o <<84, 104, 97, 110, 107, 115>> \o Spaces(1) \o <<102, 111, 114>> \o Spaces(1)>>,
    <<"goto", 19, 34>>,                         \* c.goto(19,34);
    \* c.puts(b" travelling ");
    <<"puts", Spaces(1) \o <<116, 114, 97, 118, 101, 108, 108, 105, 110, 103>> \o Spaces(1)>>,
    <<"goto", 20, 34>>,                         \* c.goto(20,34);
    \* c.puts(b"  with us!  ");
    <<"puts", Spaces(2) \o <<119, 105, 116, 104>> \o Spaces(1) \o <<117, 115, 33>> \o Spaces(2)>>,
    <<"goto", 21, 34>>,                         \* c.goto(21,34);
    <<"puts", Spaces(12)>>                      \* c.puts(b"            ");
  >>)

\* ------------------------------------------------------------------------
\* Input code and dispatch (application loop)
\* ------------------------------------------------------------------------

\* ((idr7 as u8) << 0) + ((idr8 as u8) << 1) + ((idr9 as u8) << 2)
SampleCode(a, b, c) == U8(U8(a * 1) + U8(b * 2) + U8(c * 4))

\* Variant of Match: a table with an arm for every screen procedure, so that
\* codes 6 and 7 select other screens
Match_shifted(code) ==
  CASE code = 0 -> "screen_error"
    [] code = 1 -> "screen_start"
    [] code = 2 -> "screen_paying"
    [] code = 3 -> "screen_confirm"
    [] code = 4 -> "screen_line1"
    [] code = 5 -> "screen_line2"
    [] code = 6 -> "screen_line3"
    [] OTHER -> "screen_thanks"

\* match s { 0b000 => screen_error, ..., _ => screen_error }
Match(code) ==
  CASE code = 0 -> "screen_error"
    [] code = 1 -> "screen_start"
    [] code = 2 -> "screen_paying"
    [] code = 3 -> "screen_confirm"
    [] code = 4 -> "screen_line1"
    [] code = 5 -> "screen_line2"
    [] code = 6 -> "screen_thanks"
    [] OTHER -> "screen_error"

\* The call of the screen procedure of that name
Call(name, c) ==
  CASE name = "screen_error" -> screen_error(c)
    [] name = "screen_start" -> screen_start(c)
    [] name = "screen_paying" -> screen_paying(c)
    [] name = "screen_confirm" -> screen_confirm(c)
    [] name = "screen_line1" -> screen_line1(c)
    [] name = "screen_line2" -> screen_line2(c)
    [] name = "screen_line3" -> screen_line3(c)
    [] name = "screen_thanks" -> screen_thanks(c)

\* The digits of n in base 2, most significant first ('0' = 48)
RECURSIVE BinDigits(_)
BinDigits(n) ==
  IF n < 2 THEN <<48 + n>> ELSE BinDigits(n \div 2) \o <<48 + (n % 2)>>

\* Variant of Format03b: "{:b}", no padding
Format03b_nopad(n) == BinDigits(n)

\* "{:03b}": the binary digits, zero-padded on the left to width 3
Format03b(n) ==
  LET d == BinDigits(n)
  IN  IF Len(d) >= 3 THEN d ELSE [i \in 1 .. 3 - Len(d) |-> 48] \o d

\* c.bg = RED; c.fg = WHITE; c.goto(35, 77); write!(&mut c, "{:03b}", s)
Overlay(c, code) ==
  write_str(goto([c EXCEPT !.bg = RED, !.fg = WHITE], 35, 77), Format03b(code))

\* ------------------------------------------------------------------------
\* Display timing and bounds
\* ------------------------------------------------------------------------
TextLines == 592
VisibleLines == 600
RepeatLines == VisibleLines - TextLines

\* Application-loop iterations explored
MaxIter == 2
\* Cursor operations applied in a row by the cursor harness
MaxOps == 2
\* Scan lines into a frame up to which a late application loop is followed
MaxOverrun == 1

\* ------------------------------------------------------------------------
\* State
\* ------------------------------------------------------------------------
VARIABLES
  buf,        \* contents of TEXT_BUF
  locked,     \* the SpinLock's flag
  guards,     \* contexts that own a guard of TEXT_BUF: "main", "app", "rast"
  pc,         \* position of main / the application loop
  cur,        \* the live Cursor (row, col, fg, bg, ok), NoCursor when none
  s,          \* the code sampled in this iteration
  s0,         \* previous code
  phase,      \* display: "off", "vblank", "active"
  line,       \* next scan line of the frame
  rastpc,     \* raster callback: "idle", "unpack", "halt"
  woken,      \* sync_to_vblank has seen the start of a vertical blank
  calls,      \* history: screen procedures invoked in this iteration
  pre,        \* history: grid and s0 when this iteration took the guard
  last,       \* history: code sampled in the preceding iteration
  committed,  \* history: grid left by the last completed paint
  iter,       \* history: completed application-loop iterations
  tried,      \* history: the most recent try_lock (who, busy)
  frame,      \* history: rows read in this frame, and the iteration count
              \* at the latest of them
  op,         \* cursor harness: the last operation and the cursor before it
  nops        \* cursor harness: operations applied

vars == <<buf, locked, guards, pc, cur, s, s0, phase, line, rastpc, woken,
          calls, pre, last, committed, iter, tried, frame, op, nops>>

sysGhost == <<calls, pre, last, committed, iter>>
harness == <<op, nops>>

NoCursor == [row |-> 0, col |-> 0, fg |-> 0, bg |-> 0, ok |-> TRUE]
NoPre == [grid |-> <<>>, s0 |-> 0]
NoTry == [who |-> "none", busy |-> FALSE]
NoFrame == [rows |-> 0, iter |-> 0]
NoOp == [name |-> "none", arg |-> <<>>, before |-> <<>>]

\* The cursor record over the grid it borrows, and back
Bind(k, grid) ==
  [buf |-> grid, row |-> k.row, col |-> k.col, fg |-> k.fg, bg |-> k.bg, ok |-> k.ok]
Unbind(c) ==
  [row |-> c.row, col |-> c.col, fg |-> c.fg, bg |-> c.bg, ok |-> c.ok]

Init ==
  /\ buf = ZeroGrid
  /\ locked = FALSE
  /\ guards = {}
  /\ pc = "start"
  /\ cur = NoCursor
  /\ s = 0
  /\ s0 = 0
  /\ phase = "off"
  /\ line = 0
  /\ rastpc = "idle"
  /\ woken = FALSE
  /\ calls = <<>>
  /\ pre = NoPre
  /\ last = 0
  /\ committed = ZeroGrid
  /\ iter = 0
  /\ tried = NoTry
  /\ frame = NoFrame
  /\ op = NoOp
  /\ nops = 0

\* The thread (main, then the application loop) runs when the raster
\* interrupt is not active; a panic inside the interrupt never returns.
ThreadRuns ==
  /\ rastpc = "idle"
  /\ ~(phase = "active" /\ line > MaxOverrun)

\* SpinLock::try_lock: Some(guard) iff the lock was free
try_lock_some == ~locked

\* Dropping a SpinLockGuard
Release(who) ==
  /\ locked' = FALSE
  /\ guards' = guards \ {who}

\* ---- main, before the driver runs ----

\* let mut c = TEXT_BUF.try_lock().unwrap();
MainLock ==
  /\ pc = "start" /\ ThreadRuns
  /\ tried' = [who |-> "main", busy |-> locked]
  /\ IF try_lock_some
       THEN /\ locked' = TRUE /\ guards' = guards \cup {"main"} /\ pc' = "paint"
       ELSE /\ pc' = "halt" /\ UNCHANGED <<locked, guards>>
  /\ UNCHANGED <<buf, cur, s, s0, phase, line, rastpc, woken, sysGhost, frame, harness>>

\* Variant of MainPaint: the startup paint is screen_start
MainPaint_start ==
  /\ pc = "paint" /\ ThreadRuns
  /\ LET c == screen_start(Cursor_new(buf))
     IN  /\ buf' = c.buf
         /\ pc' = IF c.ok THEN "drop" ELSE "halt"
  /\ UNCHANGED <<locked, guards, cur, s, s0, phase, line, rastpc, woken,
                 sysGhost, tried, frame, harness>>

\* let mut c = Cursor::new(&mut *c); screen_error(&mut c);
MainPaint ==
  /\ pc = "paint" /\ ThreadRuns
  /\ LET c == screen_error(Cursor_new(buf))
     IN  /\ buf' = c.buf
         /\ pc' = IF c.ok THEN "drop" ELSE "halt"
  /\ UNCHANGED <<locked, guards, cur, s, s0, phase, line, rastpc, woken,
                 sysGhost, tried, frame, harness>>

\* end of the startup block: the guard is dropped
MainDrop ==
  /\ pc = "drop" /\ ThreadRuns
  /\ Release("main")
  /\ committed' = buf
  /\ pc' = "init"
  /\ UNCHANGED <<buf, cur, s, s0, phase, line, rastpc, woken,
                 calls, pre, last, iter, tried, frame, harness>>

\* Where in its frame the display is when the application loop first waits:
\* at the top of the visible area or at its end
StartLines == {0, VisibleLines}

\* let mut s0: u8 = 0; m4vga::init(...).with_raster(raster, main loop);
\* vga.video_on()
DriverStart ==
  /\ pc = "init" /\ ThreadRuns
  /\ s0' = 0
  /\ phase' = "active"
  /\ \E l \in StartLines : line' = l
  /\ pc' = "sync"
  /\ UNCHANGED <<buf, locked, guards, cur, s, rastpc, woken, sysGhost, tried,
                 frame, harness>>

\* ---- the application loop ----

\* Variant of AppSync: the loop does not wait for the vertical blank
AppSync_nowait ==
  /\ pc = "sync" /\ ThreadRuns
  /\ iter < MaxIter
  /\ woken' = FALSE
  /\ pc' = "lock"
  /\ UNCHANGED <<buf, locked, guards, cur, s, s0, phase, line, rastpc,
                 sysGhost, tried, frame, harness>>

\* vga.sync_to_vblank() returns
AppSync ==
  /\ pc = "sync" /\ ThreadRuns
  /\ woken
  /\ woken' = FALSE
  /\ pc' = "lock"
  /\ UNCHANGED <<buf, locked, guards, cur, s, s0, phase, line, rastpc,
                 sysGhost, tried, frame, harness>>

\* let mut buf = TEXT_BUF.try_lock().expect("app buf access");
AppLock ==
  /\ pc = "lock" /\ ThreadRuns
  /\ tried' = [who |-> "app", busy |-> locked]
  /\ IF try_lock_some
       THEN /\ locked' = TRUE /\ guards' = guards \cup {"app"} /\ pc' = "sample"
            /\ pre' = [grid |-> buf, s0 |-> s0]
       ELSE /\ pc' = "halt" /\ UNCHANGED <<locked, guards, pre>>
  /\ UNCHANGED <<buf, cur, s, s0, phase, line, rastpc, woken,
                 calls, last, committed, iter, frame, harness>>

\* let mut c = Cursor::new(&mut *buf); let s = (three reads of GPIOC.idr)
AppSample ==
  /\ pc = "sample" /\ ThreadRuns
  /\ \E a \in {0, 1}, b \in {0, 1}, c \in {0, 1} : s' = SampleCode(a, b, c)
  /\ cur' = Unbind(Cursor_new(buf))
  /\ pc' = "dispatch"
  /\ UNCHANGED <<buf, locked, guards, s0, phase, line, rastpc, woken,
                 sysGhost, tried, frame, harness>>

\* Variant of AppDispatch: the screen is repainted in every iteration
AppDispatch_always ==
  /\ pc = "dispatch" /\ ThreadRuns
  /\ LET c == Call(Match(s), Bind(cur, buf))
     IN  /\ buf' = c.buf
         /\ cur' = Unbind(c)
         /\ calls' = <<Match(s)>>
         /\ IF c.ok
              THEN /\ s0' = U8(s + 0) /\ pc' = "overlay"
              ELSE /\ s0' = s0 /\ pc' = "halt"
  /\ UNCHANGED <<locked, guards, s, phase, line, rastpc, woken,
                 pre, last, committed, iter, tried, frame, harness>>

\* Variant of AppDispatch: s0 is not updated
AppDispatch_stale ==
  /\ pc = "dispatch" /\ ThreadRuns
  /\ LET changed == s0 # s
         c == IF changed THEN Call(Match(s), Bind(cur, buf)) ELSE Bind(cur, buf)
     IN  /\ buf' = c.buf
         /\ cur' = Unbind(c)
         /\ calls' = IF changed THEN <<Match(s)>> ELSE <<>>
         /\ s0' = s0
         /\ pc' = IF c.ok THEN "overlay" ELSE "halt"
  /\ UNCHANGED <<locked, guards, s, phase, line, rastpc, woken,
                 pre, last, committed, iter, tried, frame, harness>>

\* if s0 != s { match s { ... } }  s0 = s + 0;
AppDispatch ==
  /\ pc = "dispatch" /\ ThreadRuns
  /\ LET changed == s0 # s
         c == IF changed THEN Call(Match(s), Bind(cur, buf)) ELSE Bind(cur, buf)
     IN  /\ buf' = c.buf
         /\ cur' = Unbind(c)
         /\ calls' = IF changed THEN <<Match(s)>> ELSE <<>>
         /\ IF c.ok
              THEN /\ s0' = U8(s + 0) /\ pc' = "overlay"
              ELSE /\ s0' = s0 /\ pc' = "halt"
  /\ UNCHANGED <<locked, guards, s, phase, line, rastpc, woken,
                 pre, last, committed, iter, tried, frame, harness>>

\* c.bg = RED; c.fg = WHITE; c.goto(35, 77); write!(&mut c, "{:03b}", s);
AppOverlay ==
  /\ pc = "overlay" /\ ThreadRuns
  /\ LET c == Overlay(Bind(cur, buf), s)
     IN  /\ buf' = c.buf
         /\ cur' = Unbind(c)
         /\ pc' = IF c.ok THEN "unlock" ELSE "halt"
  /\ UNCHANGED <<locked, guards, s, s0, phase, line, rastpc, woken,
                 sysGhost, tried, frame, harness>>

\* Variant of AppUnlock: the guard outlives the loop body
AppUnlock_keep ==
  /\ pc = "unlock" /\ ThreadRuns
  /\ cur' = NoCursor
  /\ pc' = "sync"
  /\ committed' = buf
  /\ iter' = iter + 1
  /\ last' = s
  /\ s' = 0
  /\ calls' = <<>>
  /\ pre' = NoPre
  /\ UNCHANGED <<buf, locked, guards, s0, phase, line, rastpc, woken, tried,
                 frame, harness>>

\* end of the loop body: c and buf are dropped, the guard is released
AppUnlock ==
  /\ pc = "unlock" /\ ThreadRuns
  /\ Release("app")
  /\ cur' = NoCursor
  /\ pc' = "sync"
  /\ committed' = buf
  /\ iter' = iter + 1
  /\ last' = s
  /\ s' = 0
  /\ calls' = <<>>
  /\ pre' = NoPre
  /\ UNCHANGED <<buf, s0, phase, line, rastpc, woken, tried, frame, harness>>

\* ---- the display driver and the raster callback ----

\* Start of the vertical blanking interval: sync_to_vblank's waiter, if
\* any, is released.
VBlankStart ==
  /\ phase = "active" /\ line >= VisibleLines /\ rastpc = "idle"
  /\ phase' = "vblank"
  /\ woken' = (pc = "sync" /\ iter < MaxIter)
  /\ frame' = NoFrame
  /\ UNCHANGED <<buf, locked, guards, pc, cur, s, s0, line, rastpc,
                 sysGhost, tried, harness>>

\* The blanking interval ends once the application loop is back in
\* sync_to_vblank: the driver's timing contract.
ActiveStart ==
  /\ phase = "vblank" /\ rastpc = "idle"
  /\ pc \in {"sync", "halt"} /\ ~woken
  /\ phase' = "active"
  /\ line' = 0
  /\ UNCHANGED <<buf, locked, guards, pc, cur, s, s0, rastpc, woken,
                 sysGhost, tried, frame, harness>>

\* The blanking interval ends, wherever the application loop is.
ActiveStartAny ==
  /\ phase = "vblank" /\ rastpc = "idle"
  /\ phase' = "active"
  /\ line' = 0
  /\ UNCHANGED <<buf, locked, guards, pc, cur, s, s0, rastpc, woken,
                 sysGhost, tried, frame, harness>>

\* Variant of RastTryLock: a failed try_lock is ignored and the row is
\* unpacked all the same
RastTryLock_ignore ==
  /\ tried' = [who |-> "rast", busy |-> locked]
  /\ IF try_lock_some
       THEN /\ locked' = TRUE /\ guards' = guards \cup {"rast"}
       ELSE UNCHANGED <<locked, guards>>
  /\ rastpc' = "unpack"
  /\ UNCHANGED line

\* &*TEXT_BUF.try_lock().expect("rast buf access")
RastTryLock ==
  /\ tried' = [who |-> "rast", busy |-> locked]
  /\ IF try_lock_some
       THEN /\ locked' = TRUE /\ guards' = guards \cup {"rast"} /\ rastpc' = "unpack"
       ELSE /\ rastpc' = "halt" /\ UNCHANGED <<locked, guards>>
  /\ UNCHANGED line

\* m4vga::rast::solid_color_fill(tgt, ctx, 800, 0); ctx.repeat_lines = 600 - 592;
RastFill ==
  /\ line' = line + RepeatLines
  /\ UNCHANGED <<locked, guards, rastpc, tried>>

\* The raster callback is entered for scan line ln = line
RastEnter ==
  /\ phase = "active" /\ line < VisibleLines /\ rastpc = "idle"
  /\ IF line < TextLines THEN RastTryLock ELSE RastFill
  /\ UNCHANGED <<buf, pc, cur, s, s0, phase, woken, sysGhost, frame, harness>>

\* Variant of RastUnpack: the guard is kept when the callback returns
RastUnpack_keep ==
  /\ rastpc = "unpack"
  /\ frame' = [rows |-> frame.rows + 1, iter |-> iter]
  /\ line' = line + 1
  /\ rastpc' = "idle"
  /\ UNCHANGED <<buf, locked, guards, pc, cur, s, s0, phase, woken, sysGhost,
                 tried, harness>>

\* text_10x16::unpack reads the grid; the guard is dropped at the end of the
\* statement; ctx.target_range is set and the callback returns
RastUnpack ==
  /\ rastpc = "unpack"
  /\ frame' = [rows |-> frame.rows + 1, iter |-> iter]
  /\ Release("rast")
  /\ line' = line + 1
  /\ rastpc' = "idle"
  /\ UNCHANGED <<buf, pc, cur, s, s0, phase, woken, sysGhost, tried, harness>>

Thread ==
  \/ MainLock \/ MainPaint \/ MainDrop \/ DriverStart
  \/ AppSync \/ AppLock \/ AppSample \/ AppDispatch \/ AppOverlay \/ AppUnlock

Next == Thread \/ VBlankStart \/ ActiveStart \/ RastEnter \/ RastUnpack

Spec == Init /\ [][Next]_vars

NextOverrun == Thread \/ VBlankStart \/ ActiveStartAny \/ RastEnter \/ RastUnpack

SpecOverrun == Init /\ [][NextOverrun]_vars


\* ------------------------------------------------------------------------
\* Cursor harness: Cursor::new over the zeroed grid, then up to MaxOps
\* cursor operations with arguments drawn from small sets.  A panic ends
\* the run.
\* ------------------------------------------------------------------------
GotoRows == {0, 35, ROWS - 1, ROWS}
GotoCols == {0, 1, COLS - 1, COLS}
Bytes == {NL, 65}
ByteStrings == {<<65, 66, NL>>, [i \in 1 .. COLS |-> 120]}
CharStrings == {<<48, 49, 49>>, <<266>>}
Colors == {<<WHITE, RED>>, <<255, BLUE>>}

InitCursor ==
  /\ buf = ZeroGrid
  /\ locked = FALSE
  /\ guards = {}
  /\ pc = "start"
  /\ cur = Unbind(Cursor_new(ZeroGrid))
  /\ s = 0
  /\ s0 = 0
  /\ phase = "off"
  /\ line = 0
  /\ rastpc = "idle"
  /\ woken = FALSE
  /\ calls = <<>>
  /\ pre = NoPre
  /\ last = 0
  /\ committed = ZeroGrid
  /\ iter = 0
  /\ tried = NoTry
  /\ frame = NoFrame
  /\ op = NoOp
  /\ nops = 0

sysVars == <<locked, guards, pc, s, s0, phase, line, rastpc, woken,
             calls, pre, last, committed, iter, tried, frame>>

\* The operation named name with argument arg applied to the live cursor
Apply(name, arg, c) ==
  /\ cur.ok /\ nops < MaxOps
  /\ op' = [name |-> name, arg |-> arg, before |-> Bind(cur, buf)]
  /\ nops' = nops + 1
  /\ buf' = c.buf
  /\ cur' = Unbind(c)
  /\ UNCHANGED sysVars

CurPutc == \E b \in Bytes : Apply("putc", b, putc(Bind(cur, buf), b))

CurPuts == \E bs \in ByteStrings : Apply("puts", bs, puts(Bind(cur, buf), bs))

CurGoto ==
  \E row \in GotoRows, col \in GotoCols :
    Apply("goto", <<row, col>>, goto(Bind(cur, buf), row, col))

CurClear == Apply("clear", <<>>, clear(Bind(cur, buf)))

CurWriteStr ==
  \E cs \in CharStrings : Apply("write_str", cs, write_str(Bind(cur, buf), cs))

\* c.fg = ...; c.bg = ...;
CurSetColors ==
  \E k \in Colors :
    Apply("colors", k, [Bind(cur, buf) EXCEPT !.fg = k[1], !.bg = k[2]])

NextCursor ==
  CurPutc \/ CurPuts \/ CurGoto \/ CurClear \/ CurWriteStr \/ CurSetColors

SpecCursor == InitCursor /\ [][NextCursor]_vars


\* ------------------------------------------------------------------------
\* Typing harness: Cursor::new over the zeroed grid and a goto to a start
\* position, then bytes other than the line break typed one putc at a time,
\* the colours reassigned at will between them.  op.arg lists each typed
\* byte with the colours current at its call, op.before is the cursor at the
\* start.
\* ------------------------------------------------------------------------
TypeRows == {0, 35, ROWS - 1}
TypeCols == {0, COLS - 1}
TypeBytes == {65, 0, 255}

InitTyping ==
  /\ buf = ZeroGrid
  /\ locked = FALSE
  /\ guards = {}
  /\ pc = "start"
  /\ \E row \in TypeRows, col \in TypeCols :
       cur = Unbind(goto(Cursor_new(ZeroGrid), row, col))
  /\ s = 0
  /\ s0 = 0
  /\ phase = "off"
  /\ line = 0
  /\ rastpc = "idle"
  /\ woken = FALSE
  /\ calls = <<>>
  /\ pre = NoPre
  /\ last = 0
  /\ committed = ZeroGrid
  /\ iter = 0
  /\ tried = NoTry
  /\ frame = NoFrame
  /\ op = [name |-> "type", arg |-> <<>>, before |-> Bind(cur, ZeroGrid)]
  /\ nops = 0

\* c.putc(b)
TypeChar ==
  /\ cur.ok /\ nops < MaxOps
  /\ \E b \in TypeBytes :
       LET c == putc(Bind(cur, buf), b)
       IN  /\ buf' = c.buf
           /\ cur' = Unbind(c)
           /\ op' = [op EXCEPT !.arg = Append(@, <<b, cur.fg, cur.bg>>)]
  /\ nops' = nops + 1
  /\ UNCHANGED sysVars

\* c.fg = ...; c.bg = ...;
TypeColors ==
  /\ cur.ok
  /\ \E k \in Colors : cur' = [cur EXCEPT !.fg = k[1], !.bg = k[2]]
  /\ UNCHANGED <<buf, op, nops>>
  /\ UNCHANGED sysVars

NextTyping == TypeChar \/ TypeColors

SpecTyping == InitTyping /\ [][NextTyping]_vars

\* ------------------------------------------------------------------------
\* Screen harness: the screen procedures called on a cursor whose grid,
\* position and colours earlier operations have set
\* ------------------------------------------------------------------------
Screens ==
  {"screen_error", "screen_start", "screen_paying", "screen_confirm",
   "screen_line1", "screen_line2", "screen_line3", "screen_thanks"}

\* screen_x(&mut c)
CurScreen ==
  \E name \in Screens : Apply("screen", name, Call(name, Bind(cur, buf)))

NextScreens == CurScreen \/ CurSetColors \/ CurPuts

SpecScreens == InitCursor /\ [][NextScreens]_vars

\* ========================================================================
\* Properties
\* ========================================================================

\* States in which the application loop reads or writes the grid
AppInBody == pc \in {"sample", "dispatch", "overlay", "unlock"}

\* Index of cell (row, col) in the row-major grid
CellAt(row, col) == row * COLS + col

\* The three cells of the diagnostic readout
OverlayCells == {CellAt(35, 77), CellAt(35, 78), CellAt(35, 79)}

\* Bit k (0 = least significant) of a code
Bit(code, k) == (code \div (2 ^ k)) % 2

\* The overlay cells show code as three binary digits, most significant
\* first, WHITE on RED
ShowsCode(grid, code) ==
  \A k \in 0 .. 2 :
    LET a == Cell(grid, CellAt(35, 77 + k))
    IN  /\ Ch(a) = 48 + Bit(code, 2 - k)
        /\ Fg(a) = WHITE
        /\ Bg(a) = RED

\* Two grids agree on every cell outside the overlay
SameOutsideOverlay(g, h) ==
  LET gv == g
      hv == h
  IN  \A i \in (0 .. GridLen - 1) \ OverlayCells : Cell(gv, i) = Cell(hv, i)

\* The dispatch table: the procedure of each code
Table(code) ==
  <<"screen_error", "screen_start", "screen_paying", "screen_confirm",
    "screen_line1", "screen_line2", "screen_thanks", "screen_error">>[code + 1]

\* What screen_error paints on the zeroed grid (the startup paint)
ZeroPaint == screen_error(Cursor_new(ZeroGrid)).buf

C2_GuardExclusive ==
  /\ Cardinality(guards) <= 1
  /\ locked <=> guards # {}
  /\ pc \in {"paint", "drop"} => "main" \in guards
  /\ AppInBody => "app" \in guards
  /\ rastpc = "unpack" => "rast" \in guards
  /\ tried.busy =>
       /\ tried.who \notin guards
       /\ tried.who = "rast" => (rastpc = "halt" /\ frame.rows = line)
       /\ tried.who \in {"main", "app"} => pc = "halt"

\* C2 witness: the raster callback's try_lock found the guard held by the
\* application loop
C2_Witness ==
  /\ tried.who = "rast" /\ tried.busy
  /\ rastpc = "halt"
  /\ guards = {"app"}

\* C3: no guard is held across a yield point: not while the loop waits in
\* sync_to_vblank, not once the driver runs (startup paint), not after the
\* raster callback has returned; the callback holds one only for a text
\* line.
C3_NoGuardAcrossYield ==
  /\ pc = "sync" => "app" \notin guards
  /\ phase # "off" => "main" \notin guards
  /\ pc \in {"init", "sync", "lock"} => ~locked \/ guards = {"rast"}
  /\ rastpc = "idle" => "rast" \notin guards
  /\ "rast" \in guards => (rastpc = "unpack" /\ line < TextLines)
  /\ (phase = "active" /\ line >= TextLines) => "rast" \notin guards

\* C3 witness: a frame has been scanned to its end, past the solid-colour
\* line, after an iteration of the loop
C3_Witness ==
  /\ phase = "active" /\ line = VisibleLines /\ frame.rows = TextLines
  /\ iter >= 1 /\ pc = "sync"

C5_UnchangedCodeNoRepaint ==
  (pc = "unlock" /\ s = pre.s0) =>
    /\ calls = <<>>
    /\ SameOutsideOverlay(buf, pre.grid)
    /\ ShowsCode(buf, s)

\* C5 witness: previous_code = 0b011 and the code sampled is 0b011
C5_Witness ==
  /\ pc = "unlock" /\ pre.s0 = 3 /\ s = 3
  /\ Ch(Cell(buf, CellAt(35, 77))) = 48
  /\ Ch(Cell(buf, CellAt(35, 78))) = 49
  /\ Ch(Cell(buf, CellAt(35, 79))) = 49

\* C6: a screen procedure is invoked exactly when the sampled code differs
\* from the code sampled in the preceding iteration (0 before the first),
\* and then the one mapped from the code, once; previous_code is the
\* sampled code once the dispatch is done, and between iterations.
C6_DispatchOnChange ==
  /\ pc \in {"overlay", "unlock"} =>
       /\ calls = (IF s # last THEN <<Table(s)>> ELSE <<>>)
       /\ s0 = s
  /\ pc \in {"sync", "lock", "sample", "dispatch"} => s0 = last

\* C6 witness: the second of two iterations that both repaint: codes
\* a = 0 (before), b, a
C6_Witness ==
  /\ pc = "unlock" /\ iter = 1
  /\ last # 0 /\ s = 0
  /\ calls = <<"screen_error">>

\* C7: the sampled code is in 0..7, every code has its procedure, and code
\* 0b111 paints what code 0b000 paints outside the overlay.
C7_DispatchTotal ==
  /\ s \in 0 .. 7
  /\ (pc \in {"overlay", "unlock"} /\ calls # <<>>) => calls = <<Table(s)>>
  /\ (pc = "unlock" /\ calls # <<>> /\ s \in {0, 7}) =>
       SameOutsideOverlay(buf, ZeroPaint)

\* C7 witness: code 0b111 has been dispatched
C7_Witness ==
  /\ pc = "unlock" /\ s = 7
  /\ calls = <<"screen_error">>

\* C8: at the end of every iteration the overlay cells hold the sampled
\* code as three binary digits, most significant first, WHITE on RED.
C8_OverlayFresh ==
  pc = "unlock" => ShowsCode(buf, s)

\* C8 witness: an iteration without repaint has drawn 101
C8_Witness ==
  /\ pc = "unlock" /\ s = 5 /\ calls = <<>>
  /\ iter = 1

\* C9: after cursor operations that did not fail, row and col are valid
\* indices into the grid.
C9_CursorInGrid ==
  (op.name # "none" /\ cur.ok) => (cur.row < ROWS /\ cur.col < COLS)

\* C10: from a position inside the grid, the line-break byte blanks the row
\* from the cursor column to its end in the current colours and leaves the
\* cursor at column 0 of the next row.
C10_NewlinePads ==
  (op.name = "putc" /\ op.arg = NL
     /\ op.before.row < ROWS /\ op.before.col < COLS) =>
    /\ cur.ok
    /\ \A col \in op.before.col .. COLS - 1 :
         LET a == Cell(buf, CellAt(op.before.row, col))
         IN  /\ Ch(a) = SP
             /\ Fg(a) = op.before.fg % ColorRange
             /\ Bg(a) = op.before.bg % ColorRange
    /\ cur.col = 0
    /\ cur.row = op.before.row + 1


\* The cell putc builds from a byte and the cursor's colours
Built(byte, fg, bg) ==
  with_background(with_foreground(from_ascii_char(byte), fg), bg)

\* The cursor before the last operation stood inside the grid
BeforeInGrid == op.before.row < ROWS /\ op.before.col < COLS

\* Every cell outside the index range lo .. hi is as it was before the last
\* operation
SameOutside(g, h, lo, hi) ==
  LET gv == g
      hv == h
  IN  \A i \in 0 .. GridLen - 1 : (i < lo \/ i > hi) => Cell(gv, i) = Cell(hv, i)

\* C11: a byte other than the line break, typed inside the grid, lands in
\* the cell row * COLS + col and moves the cursor one column on, to column 0
\* of the next row exactly when the column reaches COLS; COLS such bytes
\* typed from column 0 fill that row and no other cell, pad nothing, and
\* leave the cursor at column 0 of the next row.
C11_WriteAndWrap ==
  /\ (op.name = "putc" /\ op.arg # NL /\ BeforeInGrid) =>
       /\ cur.ok
       /\ Cell(buf, CellAt(op.before.row, op.before.col))
            = Built(op.arg, op.before.fg, op.before.bg)
       /\ IF op.before.col + 1 = COLS
            THEN cur.row = op.before.row + 1 /\ cur.col = 0
            ELSE cur.row = op.before.row /\ cur.col = op.before.col + 1
  /\ (op.name = "puts" /\ Len(op.arg) = COLS /\ BeforeInGrid
        /\ op.before.col = 0) =>
       /\ cur.ok
       /\ cur.row = op.before.row + 1 /\ cur.col = 0
       /\ \A k \in 0 .. COLS - 1 :
            Cell(buf, CellAt(op.before.row, k))
              = Built(op.arg[k + 1], op.before.fg, op.before.bg)
       /\ SameOutside(buf, op.before.buf, CellAt(op.before.row, 0),
                      CellAt(op.before.row, COLS - 1))

\* C11 witness: COLS bytes have been typed from column 0 of row 35
C11_Witness ==
  /\ op.name = "puts" /\ Len(op.arg) = COLS
  /\ op.before.row = 35 /\ op.before.col = 0
  /\ cur.ok /\ cur.row = 36 /\ cur.col = 0

\* Index of the cell under the cursor before the last operation
StartIndex == CellAt(op.before.row, op.before.col)

\* C12 as claimed: the cells from the start index on, read in row-major
\* order, hold the typed bytes and exactly the foreground and background
\* passed with each, in call order.
C12_RoundTrip ==
  (op.name = "type" /\ cur.ok) =>
    \A k \in 1 .. Len(op.arg) :
      LET a == Cell(buf, StartIndex + k - 1)
      IN  /\ Ch(a) = op.arg[k][1]
          /\ Fg(a) = op.arg[k][2]
          /\ Bg(a) = op.arg[k][3]

\* C12 amended: the same read-back, the colours being reproduced when they
\* fit the cell's 6-bit colour fields.
C12_RoundTripInRange ==
  (op.name = "type" /\ cur.ok) =>
    \A k \in 1 .. Len(op.arg) :
      LET a == Cell(buf, StartIndex + k - 1)
      IN  /\ Ch(a) = op.arg[k][1]
          /\ op.arg[k][2] < ColorRange => Fg(a) = op.arg[k][2]
          /\ op.arg[k][3] < ColorRange => Bg(a) = op.arg[k][3]

\* C12 witness: two bytes typed across the end of a row, the colours
\* changed between them, the second with colours that fit
C12_Witness ==
  /\ op.name = "type" /\ cur.ok /\ Len(op.arg) = 2
  /\ op.before.col = COLS - 1
  /\ op.arg[1][2] # op.arg[2][2]
  /\ op.arg[2][2] < ColorRange /\ op.arg[2][3] < ColorRange

\* What the screen procedure of that name paints on the zeroed grid with a
\* new cursor
FreshPaint(name) == Call(name, Cursor_new(ZeroGrid)).buf

\* C13: whatever the grid, the cursor position and the colours before the
\* call, a screen procedure completes and leaves the grid it leaves when
\* called on the zeroed grid with a new cursor; a second call in succession
\* therefore repeats the first one's grid.
C13_ScreenIndependent ==
  op.name = "screen" => (cur.ok /\ buf = FreshPaint(op.arg))

\* C13 witness: screen_confirm called twice in succession, the second call
\* leaving the grid of the first
C13_Witness ==
  /\ op.name = "screen" /\ op.arg = "screen_confirm" /\ nops = 2
  /\ op.before.buf = buf /\ op.before.fg = WHITE
  /\ cur.ok

\* C14: goto halts when row >= ROWS or col >= COLS, the position staying as
\* it was, and otherwise moves the cursor to exactly (row, col); either way
\* the grid and both colours are as before.
C14_GotoChecked ==
  op.name = "goto" =>
    /\ buf = op.before.buf
    /\ cur.fg = op.before.fg /\ cur.bg = op.before.bg
    /\ IF op.arg[1] < ROWS /\ op.arg[2] < COLS
         THEN cur.ok /\ cur.row = op.arg[1] /\ cur.col = op.arg[2]
         ELSE ~cur.ok /\ cur.row = op.before.row /\ cur.col = op.before.col

\* C14 witness: goto(ROWS, 0) has halted with the cursor still on row 35
C14_Witness ==
  /\ op.name = "goto" /\ op.arg = <<ROWS, 0>>
  /\ ~cur.ok /\ op.before.row = 35 /\ cur.row = 35

\* C15: putc with the cursor past the last row halts for every byte, the
\* line break included, with the grid and the cursor position as they were.
C15_FailFastPastLastRow ==
  (op.name = "putc" /\ op.before.row >= ROWS) =>
    /\ ~cur.ok
    /\ buf = op.before.buf
    /\ cur.row = op.before.row /\ cur.col = op.before.col

\* C16: from every cursor position and with every colours, clear completes
\* and leaves each of the COLS * ROWS cells a space built with the
\* foreground and background current at the call, both colours unchanged.
C16_ClearBlanksAll ==
  op.name = "clear" =>
    /\ cur.ok
    /\ cur.fg = op.before.fg /\ cur.bg = op.before.bg
    /\ LET blank == Built(SP, op.before.fg, op.before.bg)
       IN  \A i \in 0 .. GridLen - 1 : Cell(buf, i) = blank

\* C16 witness: clear called with the cursor on the last cell of the grid
C16_Witness ==
  /\ op.name = "clear" /\ cur.ok
  /\ op.before.row = ROWS - 1 /\ op.before.col = COLS - 1

\* C17: at the end of every iteration, the first included, the grid is what
\* the procedure of the sampled code paints, with the three overlay cells
\* showing that code.
C17_GridIsScreenOfCode ==
  pc = "unlock" =>
    /\ SameOutsideOverlay(buf, FreshPaint(Table(s)))
    /\ ShowsCode(buf, s)

\* C17 witness: the first iteration sampled code 0 and repainted nothing
C17_Witness ==
  /\ pc = "unlock" /\ iter = 0
  /\ s = 0 /\ calls = <<>>

\* C18: no cursor operation of the application fails: the live cursor never
\* records a panic, and main or the loop is halted only by a try_lock that
\* found the guard taken, never by the startup paint, a screen procedure or
\* the overlay.
C18_NoCursorFailure ==
  /\ cur.ok
  /\ pc = "halt" => (tried.busy /\ tried.who \in {"main", "app"})

\* C18 witness: an iteration has run screen_thanks and the overlay to the
\* end
C18_Witness ==
  /\ pc = "unlock" /\ cur.ok
  /\ calls = <<"screen_thanks">>
  /\ cur.row = 36 /\ cur.col = 0

\* C19: putc leaves both colours alone; a byte other than the line break
\* changes the cell under the cursor and no other; the line break changes no
\* cell of another row and none of the current row left of the cursor.
C19_PutcFrame ==
  (op.name = "putc" /\ cur.ok) =>
    /\ cur.fg = op.before.fg /\ cur.bg = op.before.bg
    /\ IF op.arg # NL
         THEN /\ Cell(buf, StartIndex) = Built(op.arg, op.before.fg, op.before.bg)
              /\ SameOutside(buf, op.before.buf, StartIndex, StartIndex)
         ELSE SameOutside(buf, op.before.buf, StartIndex,
                          CellAt(op.before.row, COLS - 1))

\* C19 witness: a line break typed at column 1 of a row whose first cell
\* holds 'A'
C19_Witness ==
  /\ op.name = "putc" /\ op.arg = NL /\ cur.ok
  /\ op.before.col = 1
  /\ Ch(Cell(buf, CellAt(op.before.row, 0))) = 65
  /\ Ch(Cell(buf, CellAt(op.before.row, 1))) = SP

\* put_character applied to each byte of a string in turn, first to last
RECURSIVE TypeAll(_, _)
TypeAll(c, bytes) ==
  IF bytes = <<>> THEN c
  ELSE TypeAll(putc(c, Head(bytes)), Tail(bytes))

\* The code points of a string, each reduced modulo 256
LowBytes(chars) == [i \in 1 .. Len(chars) |-> chars[i] % 256]

\* C20: write_str leaves the grid and the cursor that put_character leaves
\* when applied once, in order, to each code point modulo 256, which is what
\* puts leaves for those bytes; a single code point above 255 with low byte
\* 0x0A moves the cursor to column 0 of the next row, as a line break does.
C20_WriteStrIsPuts ==
  op.name = "write_str" =>
    /\ LET t == TypeAll(op.before, LowBytes(op.arg))
           p == puts(op.before, LowBytes(op.arg))
       IN  /\ buf = t.buf /\ cur = Unbind(t)
           /\ buf = p.buf /\ cur = Unbind(p)
    /\ (cur.ok /\ Len(op.arg) = 1 /\ op.arg[1] % 256 = NL) =>
         (cur.col = 0 /\ cur.row = op.before.row + 1)

\* C20 witness: the code point 0x10A written at column 1 of a row
C20_Witness ==
  /\ op.name = "write_str" /\ op.arg = <<266>> /\ cur.ok
  /\ op.before.col = 1
  /\ cur.col = 0 /\ cur.row = op.before.row + 1
  /\ Ch(Cell(buf, CellAt(op.before.row, COLS - 1))) = SP
====
